---- MODULE Spec2Model ----
(***************************************************************************)
(* Model of the n8n licensing facade:                                      *)
(*   - License (packages/cli/src/License.ts, the class at lines 440-851):  *)
(*     the lifecycle of the LicenseManager handle, the certificate store   *)
(*     (loadCertStr / saveCertStr) and the feature-change reactor          *)
(*     (onFeatureChange); of the older class in the same file (lines       *)
(*     28-410) the wiring of the handle by init and reinit, which differs; *)
(*   - LicenseState (packages/@n8n/backend-common/src/license-state.ts).   *)
(*                                                                         *)
(* Every async method is split at its await: a "call" step runs the        *)
(* synchronous prefix, a "resume" step runs what follows the awaited       *)
(* promise.  Node runs one such step at a time, so each step is atomic.    *)
(* The LicenseManager SDK, the settings repository, the publisher and the  *)
(* orchestration service are external: their outcomes (constructor throws, *)
(* promise rejects) are chosen nondeterministically.                       *)
(***************************************************************************)
EXTENDS Integers, Sequences, FiniteSets, TLC

\* Number of concurrently running async callers of License methods.
NTasks == 2
\* Number of LicenseManager objects that may be constructed in one run.
MaxHandles == 2

Tasks == 1..NTasks
Handles == 1..MaxHandles

VARIABLES
    manager,         \* License.manager: 0 is undefined, else the handle's identity
    isShuttingDown,  \* License.isShuttingDown
    instanceType,    \* instanceSettings.instanceType: the role of this process
    autoRenewEnabled, \* config 'license.autoRenewEnabled'
    hstate,          \* per LicenseManager object: what has been done to it
    hwiring,         \* per LicenseManager object: the options it was constructed with
    nextId,          \* identity the next constructed LicenseManager gets
    pc,              \* per task: the License method it is suspended in ("idle": none)
    awaiting,        \* per task in init/reinit/shutdown: the handle whose promise it awaits
    initSeen,        \* observer: some init() without forceRecreate has been called
    otherSeen,       \* observer: some other lifecycle method has been called
    lastOp,          \* observer: what the last lifecycle step did
    licenseCert,     \* config 'license.cert': the ephemeral certificate ("" is none)
    settings,        \* the settings row under SETTINGS_LICENSE_CERT_KEY, or NoRow
    certOp,          \* observer: what the last certificate-store call did
    executionsMode,  \* config 'executions.mode'
    multiMainEnabled,      \* globalConfig.multiMainSetup.enabled
    orchMultiMainEnabled,  \* orchestrationService.isMultiMainSetupEnabled
    isFollower,      \* instanceSettings.isFollower
    binaryDataMode,  \* config 'binaryDataManager.mode'
    s3Available,     \* config 'binaryDataManager.availableModes' includes 's3'
    multiMainSetupLicensed, \* what setMultiMainSetupLicensed last stored
    objectStoreReadonly,    \* what ObjectStoreService.setReadonly last stored
    reactOp,         \* observer: what the last onFeatureChange call did
    licenseProvider, \* LicenseState.licenseProvider: 0 is null, else the provider
    providerEverSet, \* observer: setLicenseProvider has been called
    binding,         \* observer: the provider last passed to setLicenseProvider
                     \*   and the one it replaced (0: none)
    provBool,        \* per provider: what its isLicensed answers per flag
    provVal,         \* per provider: what its getValue answers per flag
    stateOp          \* observer: what the last LicenseState call did

lifeVars == <<manager, isShuttingDown, instanceType, autoRenewEnabled, hstate,
              hwiring, nextId, pc,
              awaiting, initSeen, otherSeen, lastOp>>
certVars == <<licenseCert, settings, certOp>>
reactVars == <<executionsMode, multiMainEnabled, orchMultiMainEnabled, isFollower,
               binaryDataMode, s3Available, multiMainSetupLicensed,
               objectStoreReadonly, reactOp>>
stateVars == <<licenseProvider, providerEverSet, binding, provBool, provVal, stateOp>>

vars == <<lifeVars, certVars, reactVars, stateVars>>

\* What a step of one component leaves alone.
notLife == <<certVars, reactVars, stateVars>>
notCert == <<lifeVars, reactVars, stateVars>>
notReact == <<lifeVars, certVars, stateVars>>
notState == <<lifeVars, certVars, reactVars>>

InstanceTypes == {"main", "worker", "webhook"}

\* Activation keys a caller may pass to activate().
Keys == {"keyA", "keyB"}

\* What a query of License returns: undefined, a string, a list of
\* entitlements, or one entitlement (NoResult: the step was not a query).
NoResult == [kind |-> "none", list |-> <<>>, text |-> ""]
UndefinedResult == [kind |-> "undefined", list |-> <<>>, text |-> ""]
StringResult(t) == [kind |-> "string", list |-> <<>>, text |-> t]
ListResult(l) == [kind |-> "list", list |-> l, text |-> ""]
EntitlementResult(e) == [kind |-> "entitlement", list |-> <<e>>, text |-> ""]

NoOp == [op |-> "none", phase |-> "none", arg |-> "", force |-> FALSE,
         result |-> NoResult,
         shutBefore |-> FALSE, mgrBefore |-> 0, calls |-> <<>>,
         ctor |-> "none", settled |-> "none", outcome |-> "none",
         nth |-> "none", onlyPlain |-> FALSE]

NoWiring == [offlineMode |-> FALSE, saveCertStr |-> "none", onFeatureChange |-> "none",
             renewal |-> FALSE]

InitLife ==
    /\ manager = 0
    /\ isShuttingDown = FALSE
    /\ hstate = [h \in Handles |-> "unborn"]
    /\ hwiring = [h \in Handles |-> NoWiring]
    /\ nextId = 1
    /\ pc = [t \in Tasks |-> "idle"]
    /\ awaiting = [t \in Tasks |-> 0]
    /\ initSeen = FALSE
    /\ otherSeen = FALSE
    /\ lastOp = NoOp

(***************************************************************************)
(* License: the lifecycle of the LicenseManager handle                     *)
(***************************************************************************)

\* renewalEnabled(): the method returns false on its first line.
renewalEnabled == FALSE

\* The options init() passes to the LicenseManager constructor, given what it
\* found the role to be and what renewalEnabled returned: offlineMode, the
\* saveCertStr and onFeatureChange callbacks, autoRenewEnabled/renewOnInit.
Options(isMainInstance, renewal) ==
    [offlineMode |-> ~isMainInstance,
     saveCertStr |-> IF isMainInstance THEN "License.saveCertStr" ELSE "noop",
     onFeatureChange |-> IF isMainInstance THEN "License.onFeatureChange" ELSE "noop",
     renewal |-> renewal]

\* init() of the class at 440-851 reads the role from instanceSettings.
Wiring == Options(instanceType = "main", renewalEnabled)

\* The class at 28-410: `multiMainSetup.instanceType === 'leader'`.
IsLeader == ~isFollower

\* renewalEnabled(instanceType) of the class at 28-410: false off main; with
\* multi-main enabled, autoRenewEnabled on the leader; otherwise `return false`.
renewalEnabledLegacy(type) ==
    IF type # "main" THEN FALSE
    ELSE IF multiMainEnabled THEN autoRenewEnabled /\ IsLeader
    ELSE FALSE

\* init(instanceType, forceRecreate) of the class at 28-410 takes the role as
\* its first argument.
WiringLegacy(type) == Options(type = "main", renewalEnabledLegacy(type))

\* init(): `if (this.manager && !forceRecreate) return`.
AlreadyInitialized_NoGuard(forceRecreate) == FALSE

AlreadyInitialized(forceRecreate) == manager # 0 /\ ~forceRecreate

\* `this.manager?.` / `if (!this.manager) return`: whether a handle is installed.
\* Nothing but the assignment in init() writes the field.
HasManager_Never == FALSE

HasManager_UnlessShuttingDown == manager # 0 /\ ~isShuttingDown

HasManager == manager # 0

\* init(): `if (this.isShuttingDown) return`.
ShutdownGuard_NoGuard == FALSE

ShutdownGuard == isShuttingDown

\* init(): the catch block logs and swallows whatever the try block threw.
InitCatch_Rethrow(failed) == IF failed THEN "threw" ELSE "returned"

InitCatch(failed) == "returned"

\* What the LicenseManager object has had done to it.
HandleInitialized(s) == IF s = "constructed" THEN "initialized" ELSE s
HandleReset_Nothing(s) == s

HandleReset(s) == IF s = "shutdown" THEN s ELSE "reset"
HandleShutdown(s) == "shutdown"

\* The record of one step: the method, whether it is the call or the resumption,
\* the state it found, the calls it made on LicenseManager objects in order
\* ("new" is the constructor), how the constructor ended, how the awaited promise
\* settled and how the method ended ("pending": suspended at its await).
Rec(op, phase, force, calls, ctor, settled, outcome) ==
    [op |-> op, phase |-> phase, arg |-> "", force |-> force,
     result |-> NoResult,
     shutBefore |-> isShuttingDown, mgrBefore |-> manager, calls |-> calls,
     ctor |-> ctor, settled |-> settled, outcome |-> outcome,
     nth |-> IF op = "init" /\ ~force /\ phase = "call"
             THEN (IF initSeen THEN "later" ELSE "first") ELSE "none",
     onlyPlain |-> ~otherSeen /\ op = "init" /\ ~force]

\* The body of init up to its await, run by task t on behalf of `op` (init
\* itself, or reinit, which has already made the calls `pre` and left the handles
\* as `hs`); `options` is what the LicenseManager is constructed with.
InitBodyWith(t, op, forceRecreate, hs, pre, options) ==
    IF AlreadyInitialized(forceRecreate) \/ ShutdownGuard
    THEN /\ hstate' = hs
         /\ lastOp' = Rec(op, "call", forceRecreate, pre, "none", "none", "returned")
         /\ UNCHANGED <<manager, hwiring, nextId, pc, awaiting>>
    ELSE \E ctorOk \in BOOLEAN :
           IF ctorOk
           THEN /\ nextId <= MaxHandles
                /\ manager' = nextId
                /\ hstate' = [hs EXCEPT ![nextId] = "constructed"]
                /\ hwiring' = [hwiring EXCEPT ![nextId] = options]
                /\ nextId' = nextId + 1
                /\ pc' = [pc EXCEPT ![t] = op]
                /\ awaiting' = [awaiting EXCEPT ![t] = nextId]
                /\ lastOp' = Rec(op, "call", forceRecreate,
                                 pre \o << <<"new", nextId>>, <<"initialize", nextId>> >>,
                                 "ok", "none", "pending")
           ELSE /\ hstate' = hs
                /\ lastOp' = Rec(op, "call", forceRecreate, pre, "threw", "none",
                                 InitCatch(TRUE))
                /\ UNCHANGED <<manager, hwiring, nextId, pc, awaiting>>

InitBody(t, op, forceRecreate, hs, pre) ==
    InitBodyWith(t, op, forceRecreate, hs, pre, Wiring)

\* init(forceRecreate), called by task t.
InitCall(t, forceRecreate) ==
    /\ pc[t] = "idle"
    /\ UNCHANGED notLife
    /\ InitBody(t, "init", forceRecreate, hstate, <<>>)
    /\ initSeen' = (initSeen \/ ~forceRecreate)
    /\ otherSeen' = (otherSeen \/ forceRecreate)
    /\ UNCHANGED <<isShuttingDown, instanceType, autoRenewEnabled>>

\* init(): `await this.manager.initialize()` settles; a rejection is caught.
InitResume(t, ok) ==
    /\ pc[t] = "init"
    /\ UNCHANGED notLife
    /\ hstate' = IF ok THEN [hstate EXCEPT ![awaiting[t]] = HandleInitialized(@)]
                 ELSE hstate
    /\ pc' = [pc EXCEPT ![t] = "idle"]
    /\ awaiting' = [awaiting EXCEPT ![t] = 0]
    /\ lastOp' = Rec("init", "resume", FALSE, <<>>, "none",
                     IF ok THEN "ok" ELSE "rejected",
                     IF ok THEN "returned" ELSE InitCatch(TRUE))
    /\ UNCHANGED <<manager, isShuttingDown, instanceType, autoRenewEnabled,
                   hwiring, nextId,
                   initSeen, otherSeen>>

\* reinit(): `this.manager?.reset(); await this.init(true)`.
ReinitCall(t) ==
    /\ pc[t] = "idle"
    /\ UNCHANGED notLife
    /\ InitBody(t, "reinit", TRUE,
                IF HasManager THEN [hstate EXCEPT ![manager] = HandleReset(@)]
                ELSE hstate,
                IF HasManager THEN << <<"reset", manager>> >> ELSE <<>>)
    /\ otherSeen' = TRUE
    /\ UNCHANGED <<isShuttingDown, instanceType, autoRenewEnabled, initSeen>>

\* The class at 28-410: init(instanceType, forceRecreate).
InitCallLegacy(t, type, forceRecreate) ==
    /\ pc[t] = "idle"
    /\ UNCHANGED notLife
    /\ InitBodyWith(t, "init", forceRecreate, hstate, <<>>, WiringLegacy(type))
    /\ initSeen' = (initSeen \/ ~forceRecreate)
    /\ otherSeen' = (otherSeen \/ forceRecreate)
    /\ UNCHANGED <<isShuttingDown, instanceType, autoRenewEnabled>>

\* The class at 28-410: reinit() is `this.manager?.reset(); await this.init('main', true)`.
ReinitCallLegacy(t) ==
    /\ pc[t] = "idle"
    /\ UNCHANGED notLife
    /\ InitBodyWith(t, "reinit", TRUE,
                    IF HasManager THEN [hstate EXCEPT ![manager] = HandleReset(@)]
                    ELSE hstate,
                    IF HasManager THEN << <<"reset", manager>> >> ELSE <<>>,
                    WiringLegacy("main"))
    /\ otherSeen' = TRUE
    /\ UNCHANGED <<isShuttingDown, instanceType, autoRenewEnabled, initSeen>>

ReinitResume(t, ok) ==
    /\ pc[t] = "reinit"
    /\ UNCHANGED notLife
    /\ hstate' = IF ok THEN [hstate EXCEPT ![awaiting[t]] = HandleInitialized(@)]
                 ELSE hstate
    /\ pc' = [pc EXCEPT ![t] = "idle"]
    /\ awaiting' = [awaiting EXCEPT ![t] = 0]
    /\ lastOp' = Rec("reinit", "resume", TRUE, <<>>, "none",
                     IF ok THEN "ok" ELSE "rejected",
                     IF ok THEN "returned" ELSE InitCatch(TRUE))
    /\ UNCHANGED <<manager, isShuttingDown, instanceType, autoRenewEnabled,
                   hwiring, nextId,
                   initSeen, otherSeen>>

\* activate / reload / renew: `if (!this.manager) return; await this.manager.<m>(arg)`
\* (arg is "" for the methods that take none).  A call on the handle is recorded
\* with the handle and the argument passed on.
DelegateCall(t, m, arg) ==
    /\ pc[t] = "idle"
    /\ UNCHANGED notLife
    /\ IF ~HasManager
       THEN /\ lastOp' = [Rec(m, "call", FALSE, <<>>, "none", "none", "returned")
                             EXCEPT !.arg = arg]
            /\ UNCHANGED <<pc, awaiting>>
       ELSE /\ pc' = [pc EXCEPT ![t] = m]
            /\ lastOp' = [Rec(m, "call", FALSE, << <<m, manager, arg>> >>, "none",
                              "none", "pending")
                             EXCEPT !.arg = arg]
            /\ UNCHANGED awaiting
    /\ otherSeen' = TRUE
    /\ UNCHANGED <<manager, isShuttingDown, instanceType, autoRenewEnabled,
                   hstate, hwiring, nextId,
                   initSeen>>

\* activate / reload / renew have no try/catch: a rejection of the awaited call
\* rejects the method's own promise.
DelegateOutcome_Swallowed(ok) == "returned"

DelegateOutcome(ok) == IF ok THEN "returned" ELSE "threw"

\* The awaited manager call settles.
DelegateResume(t, m, ok) ==
    /\ pc[t] = m
    /\ UNCHANGED notLife
    /\ pc' = [pc EXCEPT ![t] = "idle"]
    /\ lastOp' = Rec(m, "resume", FALSE, <<>>, "none",
                     IF ok THEN "ok" ELSE "rejected", DelegateOutcome(ok))
    /\ UNCHANGED <<awaiting, manager, isShuttingDown, instanceType,
                   autoRenewEnabled, hstate, hwiring, nextId,
                   initSeen, otherSeen>>

Activate(t, activationKey) == DelegateCall(t, "activate", activationKey)
ActivateResume(t, ok) == DelegateResume(t, "activate", ok)
Reload(t) == DelegateCall(t, "reload", "")
ReloadResume(t, ok) == DelegateResume(t, "reload", ok)
Renew(t) == DelegateCall(t, "renew", "")
RenewResume(t, ok) == DelegateResume(t, "renew", ok)

\* shutdown(): sets the flag, then `if (!this.manager) return; await manager.shutdown()`.
ShutdownCall(t) ==
    /\ pc[t] = "idle"
    /\ UNCHANGED notLife
    /\ isShuttingDown' = TRUE
    /\ IF ~HasManager
       THEN /\ lastOp' = Rec("shutdown", "call", FALSE, <<>>, "none", "none", "returned")
            /\ UNCHANGED <<pc, awaiting>>
       ELSE /\ pc' = [pc EXCEPT ![t] = "shutdown"]
            /\ awaiting' = [awaiting EXCEPT ![t] = manager]
            /\ lastOp' = Rec("shutdown", "call", FALSE,
                             << <<"shutdown", manager>> >>, "none", "none", "pending")
    /\ otherSeen' = TRUE
    /\ UNCHANGED <<manager, instanceType, autoRenewEnabled, hstate, hwiring, nextId, initSeen>>

ShutdownResume(t, ok) ==
    /\ pc[t] = "shutdown"
    /\ UNCHANGED notLife
    /\ hstate' = IF ok THEN [hstate EXCEPT ![awaiting[t]] = HandleShutdown(@)]
                 ELSE hstate
    /\ pc' = [pc EXCEPT ![t] = "idle"]
    /\ awaiting' = [awaiting EXCEPT ![t] = 0]
    /\ lastOp' = Rec("shutdown", "resume", FALSE, <<>>, "none",
                     IF ok THEN "ok" ELSE "rejected",
                     IF ok THEN "returned" ELSE "threw")
    /\ UNCHANGED <<manager, isShuttingDown, instanceType, autoRenewEnabled,
                   hwiring, nextId,
                   initSeen, otherSeen>>

(***************************************************************************)
(* License: the queries answered by the handle                             *)
(***************************************************************************)

\* What the LicenseManager may answer: its entitlements ("mainPlan" stands for
\* one whose productMetadata.terms.isMainPlan is set), a feature value, its
\* management JWT and its toString().
EntitlementLists == {<<>>, <<"addon">>, <<"addon", "mainPlan">>}
FeatureValues == {UndefinedResult, StringResult("value")}
IsMainPlan(e) == e = "mainPlan"

\* `x ?? []`
OrEmptyList_Missing(r) == r

OrEmptyList(r) == IF r.kind = "undefined" THEN ListResult(<<>>) ELSE r

\* `entitlements.find(isMainPlan)`: the first such element, or undefined.
RECURSIVE Find(_)
Find(l) ==
    IF l = <<>> THEN UndefinedResult
    ELSE IF IsMainPlan(Head(l)) THEN EntitlementResult(Head(l))
    ELSE Find(Tail(l))

\* `this.manager?.getCurrentEntitlements() ?? []`, the handle answering `l`.
CurrentEntitlements(l) ==
    OrEmptyList(IF HasManager THEN ListResult(l) ELSE UndefinedResult)

\* A synchronous query: it reads the handle and writes no field of License.
\* `calls` are the calls it made on the handle.
Query(op, calls, result) ==
    /\ lastOp' = [Rec(op, "call", FALSE, calls, "none", "none", "returned")
                    EXCEPT !.result = result]
    /\ UNCHANGED <<manager, isShuttingDown, instanceType, autoRenewEnabled,
                   hstate, hwiring, nextId, pc, awaiting, initSeen, otherSeen>>
    /\ UNCHANGED notLife

HandleCall(m) == IF HasManager THEN << <<m, manager>> >> ELSE <<>>

\* getCurrentEntitlements()
GetCurrentEntitlements(l) ==
    Query("getCurrentEntitlements", HandleCall("getCurrentEntitlements"),
          CurrentEntitlements(l))

\* getFeatureValue(feature): `this.manager?.getFeatureValue(feature)`
GetFeatureValue(v) ==
    Query("getFeatureValue", HandleCall("getFeatureValue"),
          IF HasManager THEN v ELSE UndefinedResult)

\* getManagementJwt(): `if (!this.manager) return ''`
GetManagementJwt ==
    Query("getManagementJwt", HandleCall("getManagementJwt"),
          IF HasManager THEN StringResult("jwt") ELSE StringResult(""))

\* getMainPlan(): undefined without a handle or without entitlements, else the
\* first entitlement that is a main plan.
GetMainPlan(l) ==
    Query("getMainPlan", HandleCall("getCurrentEntitlements"),
          IF ~HasManager THEN UndefinedResult
          ELSE IF Len(CurrentEntitlements(l).list) = 0 THEN UndefinedResult
          ELSE Find(CurrentEntitlements(l).list))

\* getInfo(): `if (!this.manager) return 'n/a'; return this.manager.toString()`
GetInfo ==
    Query("getInfo", HandleCall("toString"),
          IF HasManager THEN StringResult("LicenseManager") ELSE StringResult("n/a"))

(***************************************************************************)
(* License: the certificate store                                          *)
(***************************************************************************)

Certs == {"", "certA", "certB", "certC"}
NoRow == [present |-> FALSE, value |-> "", loadOnStartup |-> FALSE]
Row(v) == [present |-> TRUE, value |-> v, loadOnStartup |-> FALSE]

NoCertOp == [op |-> "none", arg |-> "", outcome |-> "none", result |-> "",
             reads |-> 0, upserts |-> 0,
             prevOp |-> "none", prevArg |-> "", prevOutcome |-> "none",
             prevLoad |-> "none"]

InitCert ==
    /\ licenseCert \in Certs
    /\ settings \in {NoRow} \cup {Row(v) : v \in Certs}
    /\ certOp = NoCertOp

\* The record of one certificate-store call: its argument, how it ended, what it
\* returned, how many storage reads and upserts it issued, the call before it,
\* and what the last loadCertStr() to return before it returned ("none": no such).
CertRec(op, arg, outcome, result, reads, upserts) ==
    [op |-> op, arg |-> arg, outcome |-> outcome, result |-> result,
     reads |-> reads, upserts |-> upserts,
     prevOp |-> certOp.op, prevArg |-> certOp.arg, prevOutcome |-> certOp.outcome,
     prevLoad |-> IF certOp.op = "loadCertStr" /\ certOp.outcome = "returned"
                  THEN certOp.result ELSE certOp.prevLoad]

\* `if (ephemeralLicense)` / `if (config.get('license.cert'))`: "" is falsy.
EphemeralConfigured_Ignored == FALSE

EphemeralConfigured == licenseCert # ""

\* `databaseSettings?.value ?? ''`
RowValue_Empty(row) == ""

RowValue(row) == IF row.present THEN row.value ELSE ""

\* settingsRepository.upsert({key, value, loadOnStartup: false}, ['key'])
Upsert_InsertOnly(row, value) == IF row.present THEN row ELSE Row(value)

Upsert(row, value) == Row(value)

\* loadCertStr(); dbOk: whether settingsRepository.findOne resolves.
LoadCertStr(dbOk) ==
    /\ certOp' =
         IF EphemeralConfigured
         THEN CertRec("loadCertStr", "", "returned", licenseCert, 0, 0)
         ELSE IF dbOk
         THEN CertRec("loadCertStr", "", "returned", RowValue(settings), 1, 0)
         ELSE CertRec("loadCertStr", "", "threw", "", 1, 0)
    /\ UNCHANGED <<licenseCert, settings>>
    /\ UNCHANGED notCert

\* saveCertStr(value); dbOk: whether settingsRepository.upsert resolves.
SaveCertStr(value, dbOk) ==
    /\ IF EphemeralConfigured
       THEN /\ certOp' = CertRec("saveCertStr", value, "returned", "", 0, 0)
            /\ UNCHANGED settings
       ELSE IF dbOk
       THEN /\ settings' = Upsert(settings, value)
            /\ certOp' = CertRec("saveCertStr", value, "returned", "", 0, 1)
       ELSE /\ certOp' = CertRec("saveCertStr", value, "threw", "", 0, 1)
            /\ UNCHANGED settings
    /\ UNCHANGED licenseCert
    /\ UNCHANGED notCert

(***************************************************************************)
(* License: the feature-change reactor                                     *)
(***************************************************************************)

Grants == {"absent", "granted", "denied"}
Features == [multipleMainInstances : Grants, binaryDataS3 : Grants]

NoReactOp == [op |-> "none", features |-> [multipleMainInstances |-> "absent",
                                            binaryDataS3 |-> "absent"],
              calls |-> <<>>, publish |-> "none", outcome |-> "none"]

InitReact ==
    /\ executionsMode \in {"regular", "queue"}
    /\ multiMainEnabled \in BOOLEAN
    /\ orchMultiMainEnabled \in BOOLEAN
    /\ isFollower \in BOOLEAN
    /\ binaryDataMode \in {"default", "s3"}
    /\ s3Available \in BOOLEAN
    /\ multiMainSetupLicensed = FALSE
    /\ objectStoreReadonly = FALSE
    /\ reactOp = NoReactOp

\* `config.getEnv('executions.mode') === 'queue' && globalConfig.multiMainSetup.enabled`
MultiMainStep == executionsMode = "queue" /\ multiMainEnabled

\* `const isMultiMainLicensed = true` (the read of _features is commented out)
IsMultiMainLicensed(features) == TRUE

\* `orchestrationService.isMultiMainSetupEnabled && instanceSettings.isFollower`
FollowerStops_Never == FALSE

FollowerStops == orchMultiMainEnabled /\ isFollower

\* `if (config.getEnv('executions.mode') === 'queue')`
PublishStep_MultiMainOnly == executionsMode = "queue" /\ multiMainEnabled

PublishStep == executionsMode = "queue"

\* `const isS3Licensed = true` (the read of _features is commented out)
IsS3Licensed(features) == TRUE

\* `isS3Selected && isS3Available && !isS3Licensed`
ReadonlyStep(features) ==
    binaryDataMode = "s3" /\ s3Available /\ ~IsS3Licensed(features)

\* onFeatureChange(features); publishOk: whether publishCommand resolves.  The
\* record keeps the calls made in order, how the publish promise settled and how
\* the method ended; nothing in the method catches a rejection.
OnFeatureChange(features, publishOk) ==
    LET c1 == IF MultiMainStep
              THEN << <<"setMultiMainSetupLicensed", IsMultiMainLicensed(features)>> >>
              ELSE <<>>
        stop == MultiMainStep /\ FollowerStops
        c2 == IF ~stop /\ PublishStep
              THEN << <<"publishCommand", TRUE>> >> ELSE <<>>
        threw == ~stop /\ PublishStep /\ ~publishOk
        c3 == IF ~stop /\ ~threw /\ ReadonlyStep(features)
              THEN << <<"setReadonly", TRUE>> >> ELSE <<>>
    IN  /\ multiMainSetupLicensed' =
             IF MultiMainStep THEN IsMultiMainLicensed(features)
             ELSE multiMainSetupLicensed
        /\ objectStoreReadonly' = IF c3 # <<>> THEN TRUE ELSE objectStoreReadonly
        /\ reactOp' = [op |-> "onFeatureChange", features |-> features,
                       calls |-> c1 \o c2 \o c3,
                       publish |-> IF c2 = <<>> THEN "none"
                                   ELSE IF publishOk THEN "resolved" ELSE "rejected",
                       outcome |-> IF threw THEN "threw" ELSE "returned"]
        /\ UNCHANGED <<executionsMode, multiMainEnabled, orchMultiMainEnabled,
                       isFollower, binaryDataMode, s3Available>>
        /\ UNCHANGED notReact

(***************************************************************************)
(* LicenseState                                                            *)
(***************************************************************************)

Providers == {1, 2}

\* UNLIMITED_LICENSE_QUOTA of @n8n/constants.
UNLIMITED_LICENSE_QUOTA == -1

\* The named boolean predicates (45-176): the flag each is about, whether its
\* body asks isLicensed(flag), and the constant it returns when it does not.
NamedPredicates == {
    [name |-> "isSharingLicensed", flag |-> "feat:sharing",
     asks |-> FALSE, fixed |-> TRUE],
    [name |-> "isLogStreamingLicensed", flag |-> "feat:logStreaming",
     asks |-> FALSE, fixed |-> TRUE],
    [name |-> "isLdapLicensed", flag |-> "feat:ldap",
     asks |-> FALSE, fixed |-> TRUE],
    [name |-> "isSamlLicensed", flag |-> "feat:saml",
     asks |-> FALSE, fixed |-> TRUE],
    [name |-> "isApiKeyScopesLicensed", flag |-> "feat:apiKeyScopes",
     asks |-> FALSE, fixed |-> TRUE],
    [name |-> "isAiAssistantLicensed", flag |-> "feat:aiAssistant",
     asks |-> FALSE, fixed |-> TRUE],
    [name |-> "isAskAiLicensed", flag |-> "feat:askAi",
     asks |-> TRUE, fixed |-> TRUE],
    [name |-> "isAiCreditsLicensed", flag |-> "feat:aiCredits",
     asks |-> TRUE, fixed |-> TRUE],
    [name |-> "isAdvancedExecutionFiltersLicensed", flag |-> "feat:advancedExecutionFilters",
     asks |-> FALSE, fixed |-> TRUE],
    [name |-> "isAdvancedPermissionsLicensed", flag |-> "feat:advancedPermissions",
     asks |-> FALSE, fixed |-> TRUE],
    [name |-> "isDebugInEditorLicensed", flag |-> "feat:debugInEditor",
     asks |-> FALSE, fixed |-> TRUE],
    [name |-> "isBinaryDataS3Licensed", flag |-> "feat:binaryDataS3",
     asks |-> FALSE, fixed |-> TRUE],
    [name |-> "isMultiMainLicensed", flag |-> "feat:multipleMainInstances",
     asks |-> FALSE, fixed |-> TRUE],
    [name |-> "isVariablesLicensed", flag |-> "feat:variables",
     asks |-> FALSE, fixed |-> TRUE],
    [name |-> "isSourceControlLicensed", flag |-> "feat:sourceControl",
     asks |-> FALSE, fixed |-> TRUE],
    [name |-> "isExternalSecretsLicensed", flag |-> "feat:externalSecrets",
     asks |-> FALSE, fixed |-> TRUE],
    [name |-> "isWorkflowHistoryLicensed", flag |-> "feat:workflowHistory",
     asks |-> FALSE, fixed |-> TRUE],
    [name |-> "isAPIDisabled", flag |-> "feat:apiDisabled",
     asks |-> FALSE, fixed |-> FALSE],
    [name |-> "isWorkerViewLicensed", flag |-> "feat:workerView",
     asks |-> FALSE, fixed |-> TRUE],
    [name |-> "isProjectRoleAdminLicensed", flag |-> "feat:projectRole:admin",
     asks |-> FALSE, fixed |-> TRUE],
    [name |-> "isProjectRoleEditorLicensed", flag |-> "feat:projectRole:editor",
     asks |-> FALSE, fixed |-> TRUE],
    [name |-> "isProjectRoleViewerLicensed", flag |-> "feat:projectRole:viewer",
     asks |-> FALSE, fixed |-> TRUE],
    [name |-> "isCustomNpmRegistryLicensed", flag |-> "feat:communityNodes:customRegistry",
     asks |-> FALSE, fixed |-> TRUE],
    [name |-> "isFoldersLicensed", flag |-> "feat:folders",
     asks |-> FALSE, fixed |-> TRUE],
    [name |-> "isInsightsSummaryLicensed", flag |-> "feat:insights:viewSummary",
     asks |-> FALSE, fixed |-> TRUE],
    [name |-> "isInsightsDashboardLicensed", flag |-> "feat:insights:viewDashboard",
     asks |-> FALSE, fixed |-> TRUE],
    [name |-> "isInsightsHourlyDataLicensed", flag |-> "feat:insights:viewHourlyData",
     asks |-> FALSE, fixed |-> TRUE]}

\* The named quota getters (182-224): the flag each is about, whether its body
\* asks getValue(flag), the fallback written after `??`, and the constant it
\* returns when it does not ask.
NamedQuotas == {
    [name |-> "getMaxUsers", flag |-> "quota:users",
     asks |-> FALSE, fallback |-> UNLIMITED_LICENSE_QUOTA, fixed |-> UNLIMITED_LICENSE_QUOTA],
    [name |-> "getMaxActiveWorkflows", flag |-> "quota:activeWorkflows",
     asks |-> FALSE, fallback |-> UNLIMITED_LICENSE_QUOTA, fixed |-> UNLIMITED_LICENSE_QUOTA],
    [name |-> "getMaxVariables", flag |-> "quota:maxVariables",
     asks |-> FALSE, fallback |-> UNLIMITED_LICENSE_QUOTA, fixed |-> UNLIMITED_LICENSE_QUOTA],
    [name |-> "getMaxAiCredits", flag |-> "quota:aiCredits",
     asks |-> TRUE, fallback |-> 0, fixed |-> 0],
    [name |-> "getWorkflowHistoryPruneQuota", flag |-> "quota:workflowHistoryPrune",
     asks |-> FALSE, fallback |-> UNLIMITED_LICENSE_QUOTA, fixed |-> UNLIMITED_LICENSE_QUOTA],
    [name |-> "getInsightsMaxHistory", flag |-> "quota:insights:maxHistoryDays",
     asks |-> TRUE, fallback |-> 7, fixed |-> 7],
    [name |-> "getInsightsRetentionMaxAge", flag |-> "quota:insights:retention:maxAgeDays",
     asks |-> FALSE, fallback |-> 180, fixed |-> 180],
    [name |-> "getInsightsRetentionPruneInterval", flag |-> "quota:insights:retention:pruneIntervalDays",
     asks |-> FALSE, fallback |-> 24, fixed |-> 24],
    [name |-> "getMaxTeamProjects", flag |-> "quota:maxTeamProjects",
     asks |-> FALSE, fallback |-> 0, fixed |-> UNLIMITED_LICENSE_QUOTA]}

BoolFlags == {d.flag : d \in NamedPredicates}
ValFlags == {d.flag : d \in NamedQuotas}

\* What a provider's getValue returns: undefined or a number.
Undefined == [defined |-> FALSE, v |-> 0]
Val(n) == [defined |-> TRUE, v |-> n]

\* The providers considered: one licenses the flags of one of these sets and
\* yields the value 5 for the quotas of one of these sets.
GrantedSets == {{}, BoolFlags, {"feat:askAi", "feat:apiDisabled"},
                {"feat:aiCredits", "feat:sharing"}}
ValuedSets == {{}, ValFlags, {"quota:aiCredits", "quota:users"}}
BoolAnswers == {[f \in BoolFlags |-> f \in G] : G \in GrantedSets}
ValAnswers == {[f \in ValFlags |-> IF f \in G THEN Val(5) ELSE Undefined] :
                 G \in ValuedSets}

NoStateOp == [op |-> "none", flag |-> "", provBefore |-> 0, everSet |-> FALSE,
              outcome |-> "none", answeredBy |-> {}, bool |-> FALSE,
              val |-> Undefined]

NoBinding == [last |-> 0, replaced |-> 0]

InitState ==
    /\ licenseProvider = 0
    /\ providerEverSet = FALSE
    /\ binding = NoBinding
    /\ provBool \in [Providers -> BoolAnswers]
    /\ provVal \in [Providers -> ValAnswers]
    /\ stateOp = NoStateOp

\* `this.licenseProvider = provider`
NewProvider_KeepFirst(provider) ==
    IF licenseProvider = 0 THEN provider ELSE licenseProvider

NewProvider(provider) == provider

\* setLicenseProvider(provider)
SetLicenseProvider(p) ==
    /\ licenseProvider' = NewProvider(p)
    /\ providerEverSet' = TRUE
    /\ binding' = [last |-> p, replaced |-> licenseProvider]
    /\ stateOp' = [NoStateOp EXCEPT !.op = "setLicenseProvider",
                                    !.provBefore = licenseProvider,
                                    !.everSet = providerEverSet,
                                    !.outcome = "returned"]
    /\ UNCHANGED <<provBool, provVal>>
    /\ UNCHANGED notState

\* assertProvider(): `if (!this.licenseProvider) throw new ProviderNotSetError()`
AssertProviderThrows_Never == FALSE

AssertProviderThrows == licenseProvider = 0

\* What a call `op` does that is, or consists of, this.isLicensed(flag).
IsLicensedRec(op, flag) ==
    IF AssertProviderThrows
    THEN [NoStateOp EXCEPT !.op = op, !.flag = flag,
                           !.provBefore = licenseProvider,
                           !.everSet = providerEverSet,
                           !.outcome = "ProviderNotSetError"]
    ELSE [NoStateOp EXCEPT !.op = op, !.flag = flag,
                           !.provBefore = licenseProvider,
                           !.everSet = providerEverSet,
                           !.outcome = "returned",
                           !.answeredBy = {licenseProvider} \ {0},
                           !.bool = IF licenseProvider = 0 THEN FALSE
                                    ELSE provBool[licenseProvider][flag]]

\* What a call `op` does that is, or starts with, this.getValue(flag).
GetValueRec(op, flag) ==
    IF AssertProviderThrows
    THEN [NoStateOp EXCEPT !.op = op, !.flag = flag,
                           !.provBefore = licenseProvider,
                           !.everSet = providerEverSet,
                           !.outcome = "ProviderNotSetError"]
    ELSE [NoStateOp EXCEPT !.op = op, !.flag = flag,
                           !.provBefore = licenseProvider,
                           !.everSet = providerEverSet,
                           !.outcome = "returned",
                           !.answeredBy = {licenseProvider} \ {0},
                           !.val = IF licenseProvider = 0 THEN Undefined
                                   ELSE provVal[licenseProvider][flag]]

\* What a call `op` does that returns a constant.
FixedRec(op, flag) ==
    [NoStateOp EXCEPT !.op = op, !.flag = flag,
                      !.provBefore = licenseProvider,
                      !.everSet = providerEverSet,
                      !.outcome = "returned"]

\* isLicensed(feature)
IsLicensed(flag) ==
    /\ stateOp' = IsLicensedRec("isLicensed", flag)
    /\ UNCHANGED <<licenseProvider, providerEverSet, binding, provBool, provVal>>
    /\ UNCHANGED notState

\* getValue(feature)
GetValue(flag) ==
    /\ stateOp' = GetValueRec("getValue", flag)
    /\ UNCHANGED <<licenseProvider, providerEverSet, binding, provBool, provVal>>
    /\ UNCHANGED notState

\* One of the named boolean predicates, d being its entry in NamedPredicates.
NamedPredicate(d) ==
    /\ stateOp' = IF d.asks THEN IsLicensedRec(d.name, d.flag)
                  ELSE [FixedRec(d.name, d.flag) EXCEPT !.bool = d.fixed]
    /\ UNCHANGED <<licenseProvider, providerEverSet, binding, provBool, provVal>>
    /\ UNCHANGED notState

\* `value ?? fallback`
Coalesce_NoFallback(value, fallback) == value

Coalesce(value, fallback) == IF value.defined THEN value ELSE Val(fallback)

\* One of the named quota getters, d being its entry in NamedQuotas.
NamedQuota(d) ==
    /\ stateOp' =
         IF d.asks
         THEN LET r == GetValueRec(d.name, d.flag)
              IN  IF r.outcome = "returned"
                  THEN [r EXCEPT !.val = Coalesce(r.val, d.fallback)]
                  ELSE r
         ELSE [FixedRec(d.name, d.flag) EXCEPT !.val = Val(d.fixed)]
    /\ UNCHANGED <<licenseProvider, providerEverSet, binding, provBool, provVal>>
    /\ UNCHANGED notState

(***************************************************************************)
(* Specifications                                                          *)
(***************************************************************************)

\* The components at rest: what each specification fixes for the components it
\* does not exercise.
IdleCert == licenseCert = "" /\ settings = NoRow /\ certOp = NoCertOp
IdleReact ==
    /\ executionsMode = "regular" /\ multiMainEnabled = FALSE
    /\ orchMultiMainEnabled = FALSE /\ isFollower = FALSE
    /\ binaryDataMode = "default" /\ s3Available = FALSE
    /\ multiMainSetupLicensed = FALSE /\ objectStoreReadonly = FALSE
    /\ reactOp = NoReactOp
IdleState ==
    /\ licenseProvider = 0 /\ providerEverSet = FALSE /\ binding = NoBinding
    /\ provBool = [p \in Providers |-> [f \in BoolFlags |-> FALSE]]
    /\ provVal = [p \in Providers |-> [f \in ValFlags |-> Undefined]]
    /\ stateOp = NoStateOp

\* A main instance with automatic renewal configured (the configuration default).
MainRole == instanceType = "main" /\ autoRenewEnabled = TRUE

\* The lifecycle of a main instance.
Init == InitLife /\ MainRole /\ IdleCert /\ IdleReact /\ IdleState

Next ==
    \/ \E t \in Tasks, f \in BOOLEAN : InitCall(t, f)
    \/ \E t \in Tasks, ok \in BOOLEAN : InitResume(t, ok)
    \/ \E t \in Tasks : ReinitCall(t)
    \/ \E t \in Tasks, ok \in BOOLEAN : ReinitResume(t, ok)
    \/ \E t \in Tasks, k \in Keys : Activate(t, k)
    \/ \E t \in Tasks, ok \in BOOLEAN : ActivateResume(t, ok)
    \/ \E t \in Tasks : Reload(t)
    \/ \E t \in Tasks, ok \in BOOLEAN : ReloadResume(t, ok)
    \/ \E t \in Tasks : Renew(t)
    \/ \E t \in Tasks, ok \in BOOLEAN : RenewResume(t, ok)
    \/ \E t \in Tasks : ShutdownCall(t)
    \/ \E t \in Tasks, ok \in BOOLEAN : ShutdownResume(t, ok)

Spec == Init /\ [][Next]_vars

\* The queries, between the calls that install a handle and that delegate to it.
NextQuery ==
    \/ \E t \in Tasks, f \in BOOLEAN : InitCall(t, f)
    \/ \E t \in Tasks, ok \in BOOLEAN : InitResume(t, ok)
    \/ \E t \in Tasks : Reload(t)
    \/ \E t \in Tasks, ok \in BOOLEAN : ReloadResume(t, ok)
    \/ \E t \in Tasks : Renew(t)
    \/ \E t \in Tasks, ok \in BOOLEAN : RenewResume(t, ok)
    \/ \E l \in EntitlementLists : GetCurrentEntitlements(l)
    \/ \E v \in FeatureValues : GetFeatureValue(v)
    \/ GetManagementJwt
    \/ \E l \in EntitlementLists : GetMainPlan(l)
    \/ GetInfo

SpecQuery == Init /\ [][NextQuery]_vars

\* The wiring of the handle on every role and under every setting renewalEnabled
\* reads: init and reinit only.
InitRoles ==
    /\ InitLife /\ IdleCert /\ IdleState
    /\ instanceType \in InstanceTypes
    /\ autoRenewEnabled \in BOOLEAN
    /\ multiMainEnabled \in BOOLEAN
    /\ isFollower \in BOOLEAN
    /\ executionsMode = "regular" /\ orchMultiMainEnabled = multiMainEnabled
    /\ binaryDataMode = "default" /\ s3Available = FALSE
    /\ multiMainSetupLicensed = FALSE /\ objectStoreReadonly = FALSE
    /\ reactOp = NoReactOp

NextRoles ==
    \/ \E t \in Tasks, f \in BOOLEAN : InitCall(t, f)
    \/ \E t \in Tasks, ok \in BOOLEAN : InitResume(t, ok)
    \/ \E t \in Tasks : ReinitCall(t)
    \/ \E t \in Tasks, ok \in BOOLEAN : ReinitResume(t, ok)

SpecRoles == InitRoles /\ [][NextRoles]_vars

\* The same for the class at 28-410, whose callers pass the role of the process
\* to init and whose reinit passes 'main'.
NextLegacy ==
    \/ \E t \in Tasks, f \in BOOLEAN : InitCallLegacy(t, instanceType, f)
    \/ \E t \in Tasks, ok \in BOOLEAN : InitResume(t, ok)
    \/ \E t \in Tasks : ReinitCallLegacy(t)
    \/ \E t \in Tasks, ok \in BOOLEAN : ReinitResume(t, ok)

SpecLegacy == InitRoles /\ [][NextLegacy]_vars

\* The certificate store.
InitCertStore ==
    InitLife /\ MainRole /\ InitCert /\ IdleReact /\ IdleState

NextCert ==
    \/ \E ok \in BOOLEAN : LoadCertStr(ok)
    \/ \E v \in Certs, ok \in BOOLEAN : SaveCertStr(v, ok)

SpecCert == InitCertStore /\ [][NextCert]_vars

\* The feature-change reactor.
InitReactor ==
    InitLife /\ MainRole /\ IdleCert /\ InitReact /\ IdleState

NextReact == \E f \in Features, ok \in BOOLEAN : OnFeatureChange(f, ok)

SpecReact == InitReactor /\ [][NextReact]_vars

\* LicenseState.
InitFacade ==
    InitLife /\ MainRole /\ IdleCert /\ IdleReact /\ InitState

NextState ==
    \/ \E p \in Providers : SetLicenseProvider(p)
    \/ \E f \in BoolFlags : IsLicensed(f)
    \/ \E f \in ValFlags : GetValue(f)
    \/ \E d \in NamedPredicates : NamedPredicate(d)
    \/ \E d \in NamedQuotas : NamedQuota(d)

SpecState == InitFacade /\ [][NextState]_vars

(***************************************************************************)
(* Properties                                                              *)
(***************************************************************************)

\* How many of the calls a step made were calls of `name`.
CountCalls(calls, name) == Cardinality({i \in 1..Len(calls) : calls[i][1] = name})

LiveHandles == {h \in Handles : hstate[h] \notin {"unborn", "shutdown"}}

\* C1 (as stated): while only init() without forceRecreate has been called, no
\* call but the first constructs a LicenseManager, and every later call leaves
\* the installed handle as it found it.
C1_OnlyFirstInitConstructs ==
    (lastOp.op = "init" /\ lastOp.phase = "call" /\ ~lastOp.force
        /\ lastOp.onlyPlain /\ lastOp.nth = "later")
    => (lastOp.ctor # "ok" /\ manager = lastOp.mgrBefore)

\* C1 (amended): an init() without forceRecreate that starts while a handle is
\* installed constructs nothing, calls nothing and leaves the handle's identity
\* unchanged; and while only such init() calls have been made at most one
\* LicenseManager has been constructed, which is the one installed.
C1_InitIsNoOpOnceInstalled ==
    /\ (lastOp.op = "init" /\ lastOp.phase = "call" /\ ~lastOp.force
           /\ lastOp.mgrBefore # 0)
       => (lastOp.ctor = "none" /\ lastOp.calls = <<>>
              /\ lastOp.outcome = "returned" /\ manager = lastOp.mgrBefore)
    /\ ~otherSeen
       => (\/ manager = 0 /\ nextId = 1
           \/ manager = 1 /\ nextId = 2)

\* C1 witness: a second init() without forceRecreate has found the handle that
\* the first one, still suspended at `await this.manager.initialize()`, installed.
C1_Witness ==
    /\ lastOp.op = "init" /\ lastOp.phase = "call" /\ ~lastOp.force
    /\ lastOp.nth = "later" /\ lastOp.onlyPlain /\ lastOp.mgrBefore = 1
    /\ \E t \in Tasks : pc[t] = "init" /\ awaiting[t] = 1
    /\ manager = 1

\* C2: an init() call that starts once isShuttingDown is set constructs nothing,
\* calls nothing on any LicenseManager, returns normally and changes no field of
\* the lifecycle, whatever forceRecreate is and whether or not a handle exists.
C2_InitAfterShutdownIsNoOp ==
    [][(isShuttingDown /\ lastOp'.op = "init" /\ lastOp'.phase = "call")
        => (/\ lastOp'.ctor = "none"
            /\ lastOp'.calls = <<>>
            /\ lastOp'.outcome = "returned"
            /\ UNCHANGED <<manager, isShuttingDown, hstate, hwiring, nextId, pc,
                           awaiting>>)]_vars

\* C2 witness: init(true) has been called with a handle installed while another
\* task is still awaiting manager.shutdown().
C2_Witness ==
    /\ lastOp.op = "init" /\ lastOp.phase = "call" /\ lastOp.force
    /\ lastOp.shutBefore /\ lastOp.mgrBefore # 0
    /\ \E t \in Tasks : pc[t] = "shutdown"
    /\ hstate[manager] # "shutdown"

\* C3 (as stated): at most one LicenseManager that has been constructed and not
\* shut down exists.
C3_AtMostOneLiveHandle == Cardinality(LiveHandles) <= 1

\* C4: init() never ends by throwing, whether the LicenseManager constructor
\* throws or manager.initialize() rejects.
C4_InitNeverThrows ==
    lastOp.op = "init" => lastOp.outcome \in {"returned", "pending"}

\* C4 witness: manager.initialize() has rejected and init() has returned.
C4_Witness ==
    /\ lastOp.op = "init" /\ lastOp.phase = "resume"
    /\ lastOp.settled = "rejected" /\ lastOp.outcome = "returned"

\* C5 (as stated, for the case of manager.initialize() failing): when an init()
\* has ended with manager.initialize() having rejected, no handle is installed,
\* so that the activate(), reload(), renew() and shutdown() that follow find
\* `!this.manager` and return.
C5_NoHandleAfterFailedInit ==
    (lastOp.op = "init" /\ lastOp.phase = "resume" /\ lastOp.settled = "rejected")
    => manager = 0

\* C6: with no ephemeral certificate configured, a loadCertStr() that directly
\* follows a saveCertStr(v) returns v.
C6_SaveThenLoadRoundTrip ==
    (licenseCert = ""
        /\ certOp.op = "loadCertStr" /\ certOp.outcome = "returned"
        /\ certOp.prevOp = "saveCertStr" /\ certOp.prevOutcome = "returned")
    => certOp.result = certOp.prevArg

\* C6 witness: saveCertStr(certB) has returned and the loadCertStr() after it
\* has returned certB.
C6_Witness ==
    /\ licenseCert = ""
    /\ certOp.op = "loadCertStr" /\ certOp.outcome = "returned"
    /\ certOp.prevOp = "saveCertStr" /\ certOp.prevOutcome = "returned"
    /\ certOp.prevArg = "certB" /\ certOp.result = "certB"

\* C7: with an ephemeral certificate configured, no save or load changes the
\* stored row, every loadCertStr() returns the ephemeral certificate without a
\* storage read and every saveCertStr(v) returns without an upsert.
C7_EphemeralWinsAndIsNeverStored ==
    [][licenseCert # ""
        => (/\ settings' = settings
            /\ certOp'.op = "loadCertStr"
               => (certOp'.result = licenseCert /\ certOp'.reads = 0
                      /\ certOp'.outcome = "returned")
            /\ certOp'.op = "saveCertStr"
               => (certOp'.upserts = 0 /\ certOp'.outcome = "returned"))]_vars

\* C7 witness: with certB configured and certA stored, saveCertStr(certC) and then
\* loadCertStr() have run; the load returned certB and the row still holds certA.
C7_Witness ==
    /\ licenseCert = "certB" /\ settings = Row("certA")
    /\ certOp.op = "loadCertStr" /\ certOp.result = "certB"
    /\ certOp.prevOp = "saveCertStr" /\ certOp.prevArg = "certC"

\* C8: isLicensed and getValue called on a LicenseState whose setLicenseProvider
\* was never called throw ProviderNotSetError and no provider answers.
C8_ThrowsBeforeProviderSet ==
    (stateOp.op \in {"isLicensed", "getValue"} /\ ~stateOp.everSet)
    => (stateOp.outcome = "ProviderNotSetError" /\ stateOp.answeredBy = {})

\* C8 witness: getValue has thrown on a LicenseState with no provider.
C8_Witness ==
    /\ stateOp.op = "getValue" /\ ~stateOp.everSet /\ licenseProvider = 0
    /\ stateOp.outcome = "ProviderNotSetError"

\* C9: in queue mode with multi-main enabled (in the configuration and as the
\* orchestration service reports it) on a follower, onFeatureChange calls
\* setMultiMainSetupLicensed and nothing else, and returns.
C9_FollowerSetsFlagAndStops ==
    (reactOp.op = "onFeatureChange" /\ executionsMode = "queue"
        /\ multiMainEnabled /\ orchMultiMainEnabled /\ isFollower)
    => (/\ Len(reactOp.calls) = 1
        /\ reactOp.calls[1][1] = "setMultiMainSetupLicensed"
        /\ reactOp.outcome = "returned")

\* C9 witness: onFeatureChange has run on such a follower.
C9_Witness ==
    /\ reactOp.op = "onFeatureChange" /\ executionsMode = "queue"
    /\ multiMainEnabled /\ orchMultiMainEnabled /\ isFollower
    /\ multiMainSetupLicensed

\* C10: an onFeatureChange call publishes exactly one command when the mode is
\* queue and the instance is not a follower or multi-main is disabled, and none
\* when the mode is not queue.
C10_PublishesOnceInQueueMode ==
    reactOp.op = "onFeatureChange"
    => (/\ (executionsMode = "queue"
              /\ (~isFollower \/ ~multiMainEnabled \/ ~orchMultiMainEnabled))
           => CountCalls(reactOp.calls, "publishCommand") = 1
        /\ executionsMode # "queue"
           => CountCalls(reactOp.calls, "publishCommand") = 0)

\* C10 witness: the leader of a multi-main setup in queue mode has published.
C10_Witness ==
    /\ reactOp.op = "onFeatureChange" /\ executionsMode = "queue"
    /\ multiMainEnabled /\ orchMultiMainEnabled /\ ~isFollower
    /\ CountCalls(reactOp.calls, "publishCommand") = 1

\* C11 (as stated): with binary-data mode s3, s3 among the available modes and
\* the changed entitlements not licensing s3, every onFeatureChange call calls
\* ObjectStoreService.setReadonly(true) exactly once and does not throw.
C11_UnlicensedS3SetsReadonly ==
    (reactOp.op = "onFeatureChange" /\ binaryDataMode = "s3" /\ s3Available
        /\ reactOp.features.binaryDataS3 # "granted")
    => (/\ CountCalls(reactOp.calls, "setReadonly") = 1
        /\ objectStoreReadonly
        /\ reactOp.outcome = "returned")

\* C12 (as stated): every LicenseManager is constructed with renewal
\* (autoRenewEnabled and renewOnInit) enabled exactly when the role is main,
\* automatic renewal is configured and multi-main is disabled or the instance is
\* the leader.
C12_RenewalFollowsTruthTable ==
    \A h \in Handles :
        hstate[h] # "unborn"
        => (hwiring[h].renewal
              <=> (/\ instanceType = "main"
                   /\ autoRenewEnabled
                   /\ (~multiMainEnabled \/ ~isFollower)))

\* C13 (as stated): on a process whose role is not main, every LicenseManager
\* constructed by init() or reinit() has offline mode on and no-op saveCertStr
\* and onFeatureChange callbacks.
C13_NonMainHandlesAreOffline ==
    instanceType # "main"
    => \A h \in Handles :
           hstate[h] # "unborn"
           => (/\ hwiring[h].offlineMode
               /\ hwiring[h].saveCertStr = "noop"
               /\ hwiring[h].onFeatureChange = "noop")

\* C14: activate(key) called with a handle installed makes exactly one call,
\* manager.activate(key) on that handle, and when that call's promise rejects
\* activate() throws to its caller; called with no handle installed it calls
\* nothing, returns normally and changes no field of the lifecycle.
C14_ActivateDelegatesOnce ==
    [][lastOp'.op = "activate"
        => (/\ (lastOp'.phase = "call" /\ manager = 0)
               => (/\ lastOp'.calls = <<>>
                   /\ lastOp'.outcome = "returned"
                   /\ UNCHANGED <<manager, isShuttingDown, hstate, hwiring, nextId,
                                  pc, awaiting>>)
            /\ (lastOp'.phase = "call" /\ manager # 0)
               => (/\ lastOp'.calls = << <<"activate", manager, lastOp'.arg>> >>
                   /\ lastOp'.arg \in Keys
                   /\ lastOp'.outcome = "pending"
                   /\ manager' = manager)
            /\ lastOp'.phase = "resume"
               => (/\ lastOp'.calls = <<>>
                   /\ lastOp'.settled = "rejected" => lastOp'.outcome = "threw"
                   /\ lastOp'.settled = "ok" => lastOp'.outcome = "returned"))]_vars

\* C14 witness: manager.activate(key) has rejected and activate() has thrown.
C14_Witness ==
    /\ lastOp.op = "activate" /\ lastOp.phase = "resume"
    /\ lastOp.settled = "rejected" /\ lastOp.outcome = "threw"
    /\ manager # 0

\* C15 (as stated): every named predicate and quota getter of LicenseState
\* returns without throwing in every state, including before any provider is set.
C15_NamedQueriesNeverThrow ==
    stateOp.op \in {d.name : d \in NamedPredicates} \cup {d.name : d \in NamedQuotas}
    => stateOp.outcome = "returned"

\* C15 (amended): called with a provider bound, every named predicate and quota
\* getter returns without throwing, a quota getter never returns undefined, and
\* getMaxAiCredits and getInsightsMaxHistory return 0 and 7 when the provider
\* yields no value; called with no provider bound, isAskAiLicensed,
\* isAiCreditsLicensed, getMaxAiCredits and getInsightsMaxHistory throw
\* ProviderNotSetError and every other one returns.
C15_NamedQueriesTotalOnceBound ==
    LET quotaNames == {d.name : d \in NamedQuotas}
        names == {d.name : d \in NamedPredicates} \cup quotaNames
        asking == {"isAskAiLicensed", "isAiCreditsLicensed", "getMaxAiCredits",
                   "getInsightsMaxHistory"}
    IN  stateOp.op \in names
        => (/\ stateOp.provBefore # 0 => stateOp.outcome = "returned"
            /\ stateOp.provBefore = 0
               => stateOp.outcome = (IF stateOp.op \in asking
                                     THEN "ProviderNotSetError" ELSE "returned")
            /\ (stateOp.op \in quotaNames /\ stateOp.outcome = "returned")
               => stateOp.val.defined
            /\ (stateOp.op = "getMaxAiCredits" /\ stateOp.provBefore # 0
                   /\ ~provVal[stateOp.provBefore]["quota:aiCredits"].defined)
               => stateOp.val = Val(0)
            /\ (stateOp.op = "getInsightsMaxHistory" /\ stateOp.provBefore # 0
                   /\ ~provVal[stateOp.provBefore]["quota:insights:maxHistoryDays"].defined)
               => stateOp.val = Val(7))

\* C15 witness: getInsightsMaxHistory has returned its fallback 7, the bound
\* provider yielding no value for the quota.
C15_Witness ==
    /\ stateOp.op = "getInsightsMaxHistory" /\ stateOp.provBefore = 2
    /\ ~provVal[2]["quota:insights:maxHistoryDays"].defined
    /\ stateOp.outcome = "returned" /\ stateOp.val = Val(7)

\* C16 (as stated): with a provider bound, every named boolean predicate returns
\* what that provider's isLicensed answers for the predicate's flag, and every
\* named quota getter returns what the provider's getValue yields for the
\* getter's flag, or the getter's fallback when that is undefined.
C16_NamedQueriesAskProvider ==
    stateOp.provBefore # 0
    => (/\ \A d \in NamedPredicates :
              stateOp.op = d.name
              => (/\ stateOp.outcome = "returned"
                  /\ stateOp.bool = provBool[stateOp.provBefore][d.flag])
        /\ \A d \in NamedQuotas :
              stateOp.op = d.name
              => (/\ stateOp.outcome = "returned"
                  /\ stateOp.val =
                        IF provVal[stateOp.provBefore][d.flag].defined
                        THEN provVal[stateOp.provBefore][d.flag]
                        ELSE Val(d.fallback)))

\* C17: once setLicenseProvider has been called, every isLicensed and getValue
\* call returns the answer of the provider passed to the last setLicenseProvider
\* call and is answered by that provider alone, so by none it replaced.
C17_AnsweredByLastBoundProvider ==
    (stateOp.op \in {"isLicensed", "getValue"} /\ binding.last # 0)
    => (/\ stateOp.outcome = "returned"
        /\ stateOp.answeredBy = {binding.last}
        /\ stateOp.op = "isLicensed"
           => stateOp.bool = provBool[binding.last][stateOp.flag]
        /\ stateOp.op = "getValue"
           => stateOp.val = provVal[binding.last][stateOp.flag])

\* C17 witness: provider 2 has replaced provider 1 and has answered an isLicensed
\* call on which the two providers disagree.
C17_Witness ==
    /\ binding = [last |-> 2, replaced |-> 1]
    /\ stateOp.op = "isLicensed" /\ stateOp.answeredBy = {2}
    /\ provBool[1][stateOp.flag] # provBool[2][stateOp.flag]
    /\ stateOp.bool = provBool[2][stateOp.flag]

\* C18 (as stated): when the publish of the reload-license command fails,
\* onFeatureChange still goes on to its last step: it ends normally, and with
\* s3 selected, available and not licensed it has called setReadonly(true).
C18_PublishFailureDoesNotBlock ==
    (reactOp.op = "onFeatureChange" /\ reactOp.publish = "rejected")
    => (/\ reactOp.outcome = "returned"
        /\ (binaryDataMode = "s3" /\ s3Available
               /\ reactOp.features.binaryDataS3 # "granted")
           => CountCalls(reactOp.calls, "setReadonly") = 1)

\* C19 (as stated, for the storage upsert): saveCertStr, the callback the
\* entitlement manager invokes to persist the certificate, completes normally
\* even when the upsert it issued failed.
C19_SaveFailureNotSurfaced ==
    certOp.op = "saveCertStr" => certOp.outcome = "returned"

\* C20 (as stated): in queue mode with multi-main enabled, onFeatureChange first
\* calls setMultiMainSetupLicensed with whether the changed entitlements grant
\* multi-main (false when absent), and when they do not and the instance is not
\* a follower it still publishes the reload command.
C20_PropagatesMultiMainGrant ==
    (reactOp.op = "onFeatureChange" /\ executionsMode = "queue" /\ multiMainEnabled)
    => (/\ Len(reactOp.calls) >= 1
        /\ reactOp.calls[1] = <<"setMultiMainSetupLicensed",
                                reactOp.features.multipleMainInstances = "granted">>
        /\ multiMainSetupLicensed
              = (reactOp.features.multipleMainInstances = "granted")
        /\ (reactOp.features.multipleMainInstances # "granted"
               /\ ~(orchMultiMainEnabled /\ isFollower))
           => CountCalls(reactOp.calls, "publishCommand") = 1)

\* C21 (as stated): a reinit() that starts with a handle installed and shutdown
\* not begun first calls reset() on that handle and leaves installed a newly
\* constructed handle distinct from the one it reset.
C21_ReinitInstallsNewHandle ==
    (lastOp.op = "reinit" /\ lastOp.phase = "call" /\ lastOp.mgrBefore # 0
        /\ ~lastOp.shutBefore)
    => (/\ Len(lastOp.calls) >= 1
        /\ lastOp.calls[1] = <<"reset", lastOp.mgrBefore>>
        /\ lastOp.ctor = "ok"
        /\ manager # lastOp.mgrBefore)

\* C21 (amended): a reinit() that starts with shutdown not begun and a handle
\* installed first calls reset() on that handle and then constructs: when the
\* constructor returns, the newest LicenseManager, distinct from the one reset, is
\* installed and its initialize() awaited; when the constructor throws, the
\* handle that was reset stays installed.  With no handle installed it makes no
\* reset call and does what a first init() does.
C21_ReinitResetsThenRecreates ==
    (lastOp.op = "reinit" /\ lastOp.phase = "call" /\ ~lastOp.shutBefore)
    => LET old == lastOp.mgrBefore
           pre == IF old # 0 THEN << <<"reset", old>> >> ELSE <<>>
       IN  /\ old # 0 => hstate[old] = "reset"
           /\ lastOp.ctor \in {"ok", "threw"}
           /\ lastOp.ctor = "ok"
              => (/\ lastOp.calls
                       = pre \o << <<"new", manager>>, <<"initialize", manager>> >>
                  /\ manager \notin {0, old}
                  /\ manager = nextId - 1
                  /\ hstate[manager] = "constructed"
                  /\ lastOp.outcome = "pending")
           /\ lastOp.ctor = "threw"
              => (/\ lastOp.calls = pre
                  /\ manager = old
                  /\ lastOp.outcome = "returned")

\* C21 witness: reinit() has reset handle 1 and installed the new handle 2.
C21_Witness ==
    /\ lastOp.op = "reinit" /\ lastOp.phase = "call" /\ ~lastOp.shutBefore
    /\ lastOp.mgrBefore = 1 /\ lastOp.ctor = "ok"
    /\ manager = 2 /\ hstate[1] = "reset" /\ hstate[2] = "constructed"

\* C22: with no ephemeral certificate configured, every loadCertStr() issues
\* exactly one storage read and no upsert and, when the read succeeds, returns
\* the value the row holds at that moment, or the empty certificate when there
\* is no row; every saveCertStr issues at most one upsert and no read.
C22_LoadReadsStorageEachTime ==
    /\ (licenseCert = "" /\ certOp.op = "loadCertStr")
       => (/\ certOp.reads = 1 /\ certOp.upserts = 0
           /\ certOp.outcome = "returned"
              => certOp.result = (IF settings.present THEN settings.value ELSE ""))
    /\ certOp.op = "saveCertStr"
       => (certOp.upserts <= 1 /\ certOp.reads = 0)

\* C22 witness: a loadCertStr() returned certA, the stored value then changed,
\* and the next loadCertStr() has returned the new value certB.
C22_Witness ==
    /\ licenseCert = "" /\ certOp.op = "loadCertStr"
    /\ certOp.outcome = "returned" /\ certOp.reads = 1
    /\ certOp.prevLoad = "certA" /\ certOp.result = "certB"

\* C23: while no handle is installed, reload() and renew() call nothing and
\* return, getCurrentEntitlements() returns the empty list, getFeatureValue()
\* returns undefined, getManagementJwt() returns the empty string, getMainPlan()
\* returns undefined and getInfo() returns 'n/a'; none throws and none changes a
\* field of the lifecycle.
C23_NoHandleQueriesAreNoOps ==
    [][(manager = 0 /\ lastOp'.phase = "call"
          /\ lastOp'.op \in {"reload", "renew", "getCurrentEntitlements",
                              "getFeatureValue", "getManagementJwt", "getMainPlan",
                              "getInfo"})
        => (/\ lastOp'.calls = <<>>
            /\ lastOp'.outcome = "returned"
            /\ UNCHANGED <<manager, isShuttingDown, hstate, hwiring, nextId, pc,
                           awaiting>>
            /\ lastOp'.op \in {"reload", "renew"} => lastOp'.result.kind = "none"
            /\ lastOp'.op = "getCurrentEntitlements"
               => (lastOp'.result.kind = "list" /\ lastOp'.result.list = <<>>)
            /\ lastOp'.op \in {"getFeatureValue", "getMainPlan"}
               => lastOp'.result.kind = "undefined"
            /\ lastOp'.op = "getManagementJwt"
               => (lastOp'.result.kind = "string" /\ lastOp'.result.text = "")
            /\ lastOp'.op = "getInfo"
               => (lastOp'.result.kind = "string" /\ lastOp'.result.text = "n/a"))]_vars

\* C23 witness: the LicenseManager constructor threw in init(), so no handle is
\* installed, and getCurrentEntitlements() has then returned the empty list.
C23_Witness ==
    /\ manager = 0 /\ initSeen
    /\ lastOp.op = "getCurrentEntitlements" /\ lastOp.outcome = "returned"
    /\ lastOp.result.kind = "list" /\ lastOp.result.list = <<>>

\* C24: isShuttingDown is false initially, only a shutdown() call sets it, no
\* step resets it, and once it is set no step constructs a LicenseManager or
\* installs another handle.
C24_ShutdownFlagIsMonotonic ==
    /\ ~isShuttingDown
    /\ [][/\ isShuttingDown
             => (/\ isShuttingDown'
                 /\ nextId' = nextId /\ manager' = manager /\ hwiring' = hwiring
                 /\ lastOp'.ctor = "none"
                 /\ CountCalls(lastOp'.calls, "new") = 0)
          /\ (~isShuttingDown /\ isShuttingDown')
             => (lastOp'.op = "shutdown" /\ lastOp'.phase = "call")]_vars

\* C24 witness: shutdown() was called with no handle installed and an
\* init(true) after it has returned without constructing one.
C24_Witness ==
    /\ isShuttingDown /\ manager = 0 /\ nextId = 1
    /\ lastOp.op = "init" /\ lastOp.phase = "call" /\ lastOp.force
    /\ lastOp.shutBefore /\ lastOp.outcome = "returned"

\* C25: once a handle is installed, one is installed in every later state (a
\* forced init whose constructor throws keeps the previous one); activate(),
\* reload() and renew() called with a handle installed delegate to it, and
\* shutdown() called with a handle installed calls its shutdown(), whether or not
\* shutdown has begun or that handle has already been shut down.
C25_HandleReferenceIsNeverCleared ==
    [][/\ manager # 0 => manager' # 0
       /\ (manager # 0 /\ lastOp'.ctor = "threw") => manager' = manager
       /\ (manager # 0 /\ lastOp'.phase = "call"
              /\ lastOp'.op \in {"activate", "reload", "renew"})
          => (/\ lastOp'.calls = << <<lastOp'.op, manager, lastOp'.arg>> >>
              /\ lastOp'.outcome = "pending")
       /\ (manager # 0 /\ lastOp'.phase = "call" /\ lastOp'.op = "shutdown")
          => (/\ lastOp'.calls = << <<"shutdown", manager>> >>
              /\ lastOp'.outcome = "pending")]_vars

\* C25 witness: shutdown() has been called again on a handle whose shutdown()
\* had already completed, and has called manager.shutdown() again.
C25_Witness ==
    /\ lastOp.op = "shutdown" /\ lastOp.phase = "call" /\ lastOp.shutBefore
    /\ manager # 0 /\ hstate[manager] = "shutdown"
    /\ lastOp.calls = << <<"shutdown", manager>> >>

\* C26: a reinit() that starts once isShuttingDown is set constructs nothing and
\* leaves the installed handle's identity unchanged, yet has called reset() on
\* the installed handle, and made no other call, before init(true) returns at
\* its shutdown guard.
C26_ReinitAfterShutdownStillResets ==
    [][(isShuttingDown /\ lastOp'.op = "reinit" /\ lastOp'.phase = "call")
        => (/\ lastOp'.ctor = "none"
            /\ manager' = manager /\ nextId' = nextId /\ hwiring' = hwiring
            /\ lastOp'.outcome = "returned"
            /\ lastOp'.calls = IF manager # 0 THEN << <<"reset", manager>> >>
                               ELSE <<>>)]_vars

\* C26 witness: reinit() has been called while another task is still awaiting
\* manager.shutdown(), and has reset the handle being shut down.
C26_Witness ==
    /\ lastOp.op = "reinit" /\ lastOp.phase = "call" /\ lastOp.shutBefore
    /\ manager # 0 /\ lastOp.calls = << <<"reset", manager>> >>
    /\ hstate[manager] = "reset"
    /\ \E t \in Tasks : pc[t] = "shutdown" /\ awaiting[t] = manager
====
